---- MODULE Spec2Model ----
(***************************************************************************)
(* Model of run_libradtran_extended.py: the uvspec runner                  *)
(* (run_libradtran), its three output parsers, the auxiliary-file          *)
(* injection (add_to_main_input_str) and the batch runner                  *)
(* (run_conf_files_libradtran).                                            *)
(*                                                                         *)
(* Text is modelled at the character level where the code searches and     *)
(* splices it (the input deck), and at the token level where numpy splits  *)
(* it on whitespace (one output line = the sequence of its tokens; the     *)
(* token " " stands for whitespace that separates nothing).  Floats are    *)
(* the numerals the solver printed.                                        *)
(***************************************************************************)
EXTENDS Integers, Sequences, FiniteSets, TLC

\* ------------------------------------------------------------------ bounds

\* Most lines the solver prints in one directly called run.
MaxLines == 4
\* Largest umu_length of a directly called run.
MaxUmu == 2
\* Most configurations in one batch.
MaxConfs == 2

\* ------------------------------------------------------- numpy value model

\* Python's None.
None == [k |-> "none", v |-> <<>>]
\* A local variable that was never assigned.
Unbound == [k |-> "unbound", v |-> <<>>]
\* A numpy scalar / 0-d array: it has no length and cannot be indexed.
Scalar(x) == [k |-> "scalar", v |-> <<x>>]
\* A 1-d numpy array.
Array(s) == [k |-> "array", v |-> s]
\* A 2-d numpy array, as the sequence of its rows, with its shape.
Matrix(rows, nr, nc) == [k |-> "matrix", v |-> rows, shape |-> <<nr, nc>>]

\* float(tok) as genfromtxt converts a column: text that is no number
\* becomes nan, it does not raise.
Float(tok) == IF tok = "x" THEN "nan" ELSE tok

\* The columns genfromtxt finds in one line: split on whitespace.
Columns(line) ==
  LET toks == SelectSeq(line, LAMBDA t : t # " ")
  IN  [i \in 1..Len(toks) |-> Float(toks[i])]

\* np.genfromtxt(StringIO(line)) for one line of text: no column gives an
\* empty 1-d array, one column a 0-d array, more a 1-d array.
genfromtxt(line) ==
  LET cols == Columns(line)
  IN  IF Len(cols) = 1 THEN Scalar(cols[1]) ELSE Array(cols)

\* a[i] (0-based) can be evaluated: a is 1-d and long enough.
CanIndex(a, i) == a.k = "array" /\ i < Len(a.v)

\* row[0, j] can be evaluated for row = np.expand_dims(a, axis=0).
CanIndexRow(a, j) == a.k = "array" /\ j < Len(a.v)

\* row[0, 2:] for row = np.expand_dims(a, axis=0), a 1-d with >= 2 columns.
RowTail(a) == SubSeq(a.v, 3, Len(a.v))

\* np.append(a, x) for a scalar or 1-d array a and a scalar x: always 1-d.
NpAppend(a, x) == Array(Append(a.v, x))

\* np.expand_dims(t, axis=1) for a 1-d t: a column, one row per element.
ColumnOf(t) == Matrix([r \in 1..Len(t) |-> <<t[r]>>], Len(t), 1)

\* np.append(m, c, axis=1) can be evaluated: same number of rows.
CanAppendColumn(m, c) == m.shape[1] = c.shape[1]

\* np.append(m, c, axis=1): the column c is put to the right of m.
AppendColumn(m, c) ==
  Matrix([r \in 1..m.shape[1] |-> m.v[r] \o c.v[r]],
         m.shape[1], m.shape[2] + c.shape[2])

\* ------------------------------------------------------------ the parsers

\* What a parser hands back: the five values, or the exception it raised.
Parsed(basic, umu, phi, u0u, uu) ==
  [exc |-> "none", outdata_basic |-> basic, umu |-> umu, phi |-> phi,
   u0u |-> u0u, uu |-> uu]
Raised(e) ==
  [exc |-> e, outdata_basic |-> None, umu |-> None, phi |-> None,
   u0u |-> None, uu |-> None]

output_format_1_parser(vals) ==
  Parsed(genfromtxt(vals), None, None, None, None)

\* The loop over the viewing-angle lines of output_format_2_parser, from
\* enumerate index i on; acc holds the locals umu, u0u and the exception.
RECURSIVE Format2Loop(_, _, _)
Format2Loop(lines, i, acc) ==
  IF acc.exc # "none" \/ i >= Len(lines) THEN acc
  ELSE LET val == lines[i + 1]
           a == genfromtxt(val)
       IN  IF val = <<>> THEN Format2Loop(lines, i + 1, acc)
           ELSE IF ~CanIndexRow(a, 1)
             THEN [acc EXCEPT !.exc = "IndexError"]
           ELSE IF i = 0
             THEN Format2Loop(lines, i + 1,
                    [acc EXCEPT !.umu = Scalar(a.v[1]), !.u0u = Scalar(a.v[2])])
           ELSE IF acc.umu.k = "unbound"
             THEN [acc EXCEPT !.exc = "UnboundLocalError"]
           ELSE Format2Loop(lines, i + 1,
                    [acc EXCEPT !.umu = NpAppend(acc.umu, a.v[1]),
                                !.u0u = NpAppend(acc.u0u, a.v[2])])

output_format_2_parser(vals) ==
  LET acc == Format2Loop(Tail(vals), 0,
                         [exc |-> "none", umu |-> Unbound, u0u |-> Unbound])
  IN  IF acc.exc # "none" THEN Raised(acc.exc)
      ELSE IF acc.umu.k = "unbound" THEN Raised("UnboundLocalError")
      ELSE Parsed(genfromtxt(vals[1]), acc.umu, None, acc.u0u, None)

\* The loop of output_format_3_parser; acc also holds the local uu.
RECURSIVE Format3Loop(_, _, _)
Format3Loop(lines, i, acc) ==
  IF acc.exc # "none" \/ i >= Len(lines) THEN acc
  ELSE LET val == lines[i + 1]
           a == genfromtxt(val)
       IN  IF val = <<>> THEN Format3Loop(lines, i + 1, acc)
           ELSE IF ~CanIndexRow(a, 1)
             THEN [acc EXCEPT !.exc = "IndexError"]
           ELSE IF i = 0
             THEN Format3Loop(lines, i + 1,
                    [acc EXCEPT !.umu = Scalar(a.v[1]), !.u0u = Scalar(a.v[2]),
                                !.uu = ColumnOf(RowTail(a))])
           ELSE IF acc.umu.k = "unbound"
             THEN [acc EXCEPT !.exc = "UnboundLocalError"]
           ELSE IF ~CanAppendColumn(acc.uu, ColumnOf(RowTail(a)))
             THEN [acc EXCEPT !.exc = "ValueError"]
           ELSE Format3Loop(lines, i + 1,
                    [acc EXCEPT !.umu = NpAppend(acc.umu, a.v[1]),
                                !.u0u = NpAppend(acc.u0u, a.v[2]),
                                !.uu = AppendColumn(acc.uu, ColumnOf(RowTail(a)))])

output_format_3_parser(vals) ==
  LET acc == Format3Loop(Tail(Tail(vals)), 0,
                         [exc |-> "none", umu |-> Unbound, u0u |-> Unbound,
                          uu |-> Unbound])
  IN  IF acc.exc # "none" THEN Raised(acc.exc)
      ELSE IF acc.umu.k = "unbound" THEN Raised("UnboundLocalError")
      ELSE Parsed(genfromtxt(vals[1]), acc.umu, genfromtxt(vals[2]),
                  acc.u0u, acc.uu)

\* --------------------------------------------------------- run_libradtran

\* vals.split("\n") of a standard output whose lines each end in a newline:
\* the lines, then the empty string after the last newline.
Split(stdout) == stdout \o << <<>> >>

\* Lines of one case for the configured shape (the divisors of lines 220-224).
LinesPerCase(conf) ==
  CASE conf.output_format = 0 -> 1
    [] conf.output_format = 1 -> 1 + conf.umu_length
    [] conf.output_format = 2 -> 2 + conf.umu_length

\* loop_row_count.is_integer(): the division of lines 220-224 is exact.
IsInteger(vals, conf) == (Len(vals) - 1) % LinesPerCase(conf) = 0

\* As LoopRowCount, with the trailing blank counted as a line.
LoopRowCountWithTrailing(vals, conf) == Len(vals) \div LinesPerCase(conf)

\* int(loop_row_count): the quotient, floored.
LoopRowCount(vals, conf) == (Len(vals) - 1) \div LinesPerCase(conf)

\* As Rows, with the offset of the case left out: always the first block.
RowsFromStart(vals, conf, ind) == SubSeq(vals, 1, LinesPerCase(conf))

\* rows of case ind (0-based): vals[ind*L : (ind+1)*L].
Rows(vals, conf, ind) ==
  SubSeq(vals, ind * LinesPerCase(conf) + 1, (ind + 1) * LinesPerCase(conf))

\* The parser the configured format selects, applied to the rows of a case.
ParseCase(vals, conf, ind) ==
  CASE conf.output_format = 0 -> output_format_1_parser(vals[ind + 1])
    [] conf.output_format = 1 -> output_format_2_parser(Rows(vals, conf, ind))
    [] conf.output_format = 2 -> output_format_3_parser(Rows(vals, conf, ind))

\* output_dict of one case.
OutputDict(p, error) ==
  [lambda |-> p.outdata_basic.v[1], edir |-> p.outdata_basic.v[2],
   edn |-> p.outdata_basic.v[3], eup |-> p.outdata_basic.v[4],
   uavgdir |-> p.outdata_basic.v[5], uavgdn |-> p.outdata_basic.v[6],
   uavup |-> p.outdata_basic.v[7],
   umu |-> p.umu, phi |-> p.phi, u0u |-> p.u0u, uu |-> p.uu,
   error |-> error]

\* What run_libradtran ends with: a str, a list of dicts, or an exception.
ReturnStr(text) == [kind |-> "str", text |-> text, recs |-> <<>>, exc |-> "none"]
ReturnList(recs) == [kind |-> "list", text |-> "", recs |-> recs, exc |-> "none"]
Raise(e) == [kind |-> "raise", text |-> "", recs |-> <<>>, exc |-> e]

\* The for loop of lines 228-252, from case ind on.
RECURSIVE CaseLoop(_, _, _, _, _)
CaseLoop(vals, conf, error, ind, output) ==
  IF ind >= LoopRowCount(vals, conf) THEN ReturnList(output)
  ELSE LET p == ParseCase(vals, conf, ind)
       IN  IF p.exc # "none" THEN Raise(p.exc)
           ELSE IF ~CanIndex(p.outdata_basic, 6) THEN Raise("IndexError")
           ELSE CaseLoop(vals, conf, error, ind + 1,
                         Append(output, OutputDict(p, error)))

\* As RunLibradtranBody, with the exit status not looked at.
RunLibradtranBodyIgnoresStatus(pr, conf) ==
  CaseLoop(Split(pr.stdout), conf, pr.stderr, 0, <<>>)

\* As RunLibradtranBody, with line 215 in place of line 214.
RunLibradtranBodyRaisesOSError(pr, conf) ==
  IF pr.returncode # 0 THEN Raise("OSError")
  ELSE CaseLoop(Split(pr.stdout), conf, pr.stderr, 0, <<>>)

\* The branch on the solver's exit status and all that follows it.
RunLibradtranBody(pr, conf) ==
  IF pr.returncode # 0 THEN ReturnStr(pr.stderr)
  ELSE CaseLoop(Split(pr.stdout), conf, pr.stderr, 0, <<>>)

\* ------------------------------------------------- add_to_main_input_str

word == <<"d","i","s","o","r","t">>

\* A slice bound as Python reads it: negative counts from the end, and the
\* result is clamped to 0..len.
SliceBound(i, len) ==
  IF i < 0 THEN (IF len + i < 0 THEN 0 ELSE len + i)
  ELSE IF i > len THEN len ELSE i

\* s[lo:hi] of Python.
Slice(s, lo, hi) ==
  LET l == SliceBound(lo, Len(s))
      h == SliceBound(hi, Len(s))
  IN  IF l >= h THEN <<>> ELSE SubSeq(s, l + 1, h)

\* w occurs in s at 0-based offset i.
OccursAt(s, w, i) ==
  /\ i >= 0
  /\ i + Len(w) <= Len(s)
  /\ SubSeq(s, i + 1, i + Len(w)) = w

\* s.find(w): the lowest offset where w occurs, or -1.
Find(s, w) ==
  LET hits == {i \in 0..Len(s) : OccursAt(s, w, i)}
  IN  IF hits = {} THEN -1
      ELSE CHOOSE i \in hits : \A j \in hits : i <= j

\* As add_to_main_input_str, with the directive spliced in before the word.
add_before_word(main_str, temp_file_var_name, temp_file_name) ==
  LET start_index == Find(main_str, word)
      temp_str_to_add == <<"\n">> \o temp_file_var_name \o <<" ">> \o temp_file_name
  IN  Slice(main_str, 0, start_index) \o temp_str_to_add
        \o Slice(main_str, start_index, Len(main_str))

add_to_main_input_str(main_str, temp_file_var_name, temp_file_name) ==
  LET start_index == Find(main_str, word)
      end_index == start_index + Len(word)
      temp_str_to_add == <<"\n">> \o temp_file_var_name \o <<" ">> \o temp_file_name
  IN  Slice(main_str, 0, end_index) \o temp_str_to_add
        \o Slice(main_str, end_index, Len(main_str))

\* ------------------------------------------------------ inputs of the runs

\* Output lines the solver may print.
BasicLine == <<"1","2","3","4","5","6","7">>   \* the 7 columns of a case
PhiLine == <<"20","30">>                       \* two azimuth angles
ViewLineA == <<"8","9","10","11">>             \* umu, u0u, uu for two azimuths
ViewLineB == <<"12","13","14","15">>
EmptyLine == <<>>                              \* ""
BlankLine == <<" ">>                           \* whitespace only
NanLine == <<"x","2","3","4","5","6","7">>     \* a column that is no number
LineSet == {BasicLine, PhiLine, ViewLineA, ViewLineB, EmptyLine, BlankLine}

\* All sequences of at most n elements of S.
SeqsUpTo(S, n) == UNION {[1..m -> S] : m \in 0..n}

\* What the solver writes to its standard error.
ErrorText == "Error during execution of uvspec"
VerboseText == "verbose"

\* The process after communicate(): exit status, decoded stdout and stderr.
Process(rc, out, err) == [returncode |-> rc, stdout |-> out, stderr |-> err]
NoProcess == Process(0, <<>>, "")

\* Runs of the solver seen by a direct call of run_libradtran.
DirectRuns ==
  {Process(0, out, VerboseText) : out \in SeqsUpTo(LineSet, MaxLines)}
    \cup {Process(1, out, ErrorText) : out \in {<<>>, <<BasicLine>>}}

\* Runs of the solver seen inside a batch.
BatchRuns ==
  {Process(0, out, "") :
     out \in {<<>>, <<BasicLine>>, <<BasicLine, ViewLineA>>,
              <<BasicLine, ViewLineA, ViewLineB>>, <<PhiLine>>,
              <<PhiLine, ViewLineA>>, <<NanLine>>}}
    \cup {Process(1, <<>>, ErrorText)}

\* Input decks.
TextSimple == <<"w","a","v","e","l","e","n","g","t","h"," ","5","5","0","\n","r","t","e","_","s","o","l","v","e","r"," ","d","i","s","o","r","t">>
TextVerbose == <<"w","a","v","e","l","e","n","g","t","h"," ","4","5","0","\n","r","t","e","_","s","o","l","v","e","r"," ","d","i","s","o","r","t","\n","v","e","r","b","o","s","e">>
TextDataPath == <<"d","a","t","a","_","f","i","l","e","s","_","p","a","t","h"," ","/","o","p","t","/","d","i","s","o","r","t","/","d","a","t","a","\n","r","t","e","_","s","o","l","v","e","r"," ","d","i","s","o","r","t","\n","v","e","r","b","o","s","e">>
TextTwoStream == <<"w","a","v","e","l","e","n","g","t","h"," ","4","5","0","\n","r","t","e","_","s","o","l","v","e","r"," ","t","w","o","s","t","r">>
TextSet == {TextSimple, TextVerbose, TextDataPath, TextTwoStream}

\* temp_strs sections: directive name and file content, in mapping order.
KeyTau == <<"a","e","r","o","s","o","l","_","f","i","l","e"," ","t","a","u">>
KeyMoments == <<"a","e","r","o","s","o","l","_","f","i","l","e"," ","m","o","m","e","n","t","s">>
TempTau == [key |-> KeyTau, content |-> "7 0.2\n0 0.2\n"]
TempMoments == [key |-> KeyMoments, content |-> "1.0 0.7 0.5"]
TempSet == {<<>>, <<TempTau>>, <<TempMoments, TempTau>>}

\* Names the operating system may give a new temporary directory or file.
DirNames == {<<"/","t","m","p","/","t","m","p","d">>}
FileNames == {<<"t","m","p","a">>, <<"t","m","p","b">>}
NoDir == <<>>

ParserOptions(fmt, n) == [output_format |-> fmt, umu_length |-> n]

\* A configuration: parser_options, main_str.input_str and, when the
\* section exists, temp_strs.
Configuration(fmt, n, text, hasTemp, temps) ==
  [parser_options |-> ParserOptions(fmt, n), input_str |-> text,
   has_temp_strs |-> hasTemp, temp_strs |-> temps]

\* The configurations a batch is made of.
BatchConfs ==
  {Configuration(0, 0, TextSimple, FALSE, <<>>),
   Configuration(0, 0, TextVerbose, TRUE, <<TempTau>>),
   Configuration(1, 1, TextDataPath, TRUE, <<TempMoments, TempTau>>),
   Configuration(2, 1, TextVerbose, FALSE, <<>>)}

\* The configurations of a one-element batch.
SingleConfs ==
  {Configuration(0, 0, text, TRUE, temps) : text \in TextSet, temps \in TempSet}

\* ------------------------------------------------------------------ state

VARIABLES
  caller,          \* "batch": run_conf_files_libradtran; "direct": run_libradtran
  conf_file_list,  \* the batch's configurations
  idx,             \* how many configurations the for loop has taken
  pc,              \* where the program is
  parser_conf,     \* conf of the current run_libradtran call
  main_input_str,  \* params of the current run_libradtran call
  tmpdir,          \* the open TemporaryDirectory, or NoDir
  fs,              \* the temporary files on disk: path and content
  written,         \* directive name, path and content of each file written
  pros,            \* the solver process after communicate()
  results,         \* what run_libradtran ended with
  console,         \* what the program printed
  conf_results,    \* the batch's result list
  log              \* per solver invocation: its input and the files on disk

vars == <<caller, conf_file_list, idx, pc, parser_conf, main_input_str,
          tmpdir, fs, written, pros, results, console, conf_results, log>>

NoResults == ReturnList(<<>>)

\* run_conf_files_libradtran is called with a list of configurations.
Init ==
  /\ caller = "batch"
  /\ conf_file_list \in UNION {[1..k -> BatchConfs] : k \in 1..MaxConfs}
  /\ idx = 0
  /\ pc = "for"
  /\ parser_conf = ParserOptions(0, 0)
  /\ main_input_str = <<>>
  /\ tmpdir = NoDir
  /\ fs = {}
  /\ written = <<>>
  /\ pros = NoProcess
  /\ results = NoResults
  /\ console = <<>>
  /\ conf_results = <<>>
  /\ log = <<>>

\* run_conf_files_libradtran is called with one configuration.
InitSingle ==
  /\ caller = "batch"
  /\ conf_file_list \in {<<c>> : c \in SingleConfs}
  /\ idx = 0
  /\ pc = "for"
  /\ parser_conf = ParserOptions(0, 0)
  /\ main_input_str = <<>>
  /\ tmpdir = NoDir
  /\ fs = {}
  /\ written = <<>>
  /\ pros = NoProcess
  /\ results = NoResults
  /\ console = <<>>
  /\ conf_results = <<>>
  /\ log = <<>>

\* run_libradtran is called directly.
InitDirect ==
  /\ caller = "direct"
  /\ conf_file_list = <<>>
  /\ idx = 0
  /\ pc = "call"
  /\ parser_conf \in {ParserOptions(fmt, n) : fmt \in 0..2, n \in 0..MaxUmu}
  /\ main_input_str = TextSimple
  /\ tmpdir = NoDir
  /\ fs = {}
  /\ written = <<>>
  /\ pros = NoProcess
  /\ results = NoResults
  /\ console = <<>>
  /\ conf_results = <<>>
  /\ log = <<>>

\* ---------------------------------------------- run_conf_files_libradtran

\* The for statement takes the next configuration: parser_conf and
\* main_input_str are read and the temp_strs section is looked for.
ForConf ==
  /\ pc = "for"
  /\ idx < Len(conf_file_list)
  /\ LET configuration == conf_file_list[idx + 1]
     IN  /\ parser_conf' = configuration.parser_options
         /\ main_input_str' = configuration.input_str
         /\ pc' = IF configuration.has_temp_strs THEN "with" ELSE "call"
  /\ idx' = idx + 1
  /\ written' = <<>>
  /\ UNCHANGED <<caller, conf_file_list, tmpdir, fs, pros, results, console,
                 conf_results, log>>

\* with tempfile.TemporaryDirectory() as tmpdir: the directory is made.
EnterWith ==
  /\ pc = "with"
  /\ \E d \in DirNames : tmpdir' = d
  /\ pc' = IF conf_file_list[idx].temp_strs = <<>> THEN "call" ELSE "write"
  /\ UNCHANGED <<caller, conf_file_list, idx, parser_conf, main_input_str, fs,
                 written, pros, results, console, conf_results, log>>

\* The path of a new file in directory d.
PathIn(d, name) == d \o <<"/">> \o name

\* temp.write(...); temp.seek(0): the content is on disk after the seek,
\* which flushes the buffered write.
WriteFile(files, path, content) ==
  files \cup {[path |-> path, content |-> content]}

\* One turn of the loop over temp_strs: a new file is made in tmpdir, the
\* content written and the directive added to the input.
WriteTemp ==
  /\ pc = "write"
  /\ LET temp_files == conf_file_list[idx].temp_strs
         item == temp_files[Len(written) + 1]
     IN  /\ \E name \in FileNames :
               LET path == PathIn(tmpdir, name)
               IN  /\ \A f \in fs : f.path # path
                   /\ fs' = WriteFile(fs, path, item.content)
                   /\ main_input_str' =
                        add_to_main_input_str(main_input_str, item.key, path)
                   /\ written' = Append(written,
                        [key |-> item.key, path |-> path, content |-> item.content])
         /\ pc' = IF Len(written) + 1 = Len(temp_files) THEN "call" ELSE "write"
  /\ UNCHANGED <<caller, conf_file_list, idx, parser_conf, tmpdir, pros,
                 results, console, conf_results, log>>

\* The runs of the solver the caller may see.
SolverRuns == IF caller = "direct" THEN DirectRuns ELSE BatchRuns

\* run_libradtran, lines 209-212: the solver is started, fed params and
\* waited for; it finds on disk what is there at this moment.
Communicate ==
  /\ pc = "call"
  /\ \E pr \in SolverRuns :
       /\ pros' = pr
       /\ log' = Append(log, [params |-> main_input_str, files |-> fs,
                               written |-> written, pros |-> pr])
  /\ pc' = "decode"
  /\ UNCHANGED <<caller, conf_file_list, idx, parser_conf, main_input_str,
                 tmpdir, fs, written, results, console, conf_results>>

\* Where run_libradtran's caller goes on once the call has ended with r.
AfterCall(r) ==
  IF tmpdir # NoDir THEN "exit_with"
  ELSE IF r.kind = "raise" THEN "raised"
  ELSE IF caller = "direct" THEN "returned"
  ELSE "append"

\* What lines 225-227 print.
RowCountWarning(pr, conf) ==
  IF pr.returncode = 0 /\ ~IsInteger(Split(pr.stdout), conf)
    THEN <<"Something went wrong with row counting">>
    ELSE <<>>

\* run_libradtran, lines 213-253: the exit status is looked at and the
\* output decoded; the call returns or raises.
Decode ==
  /\ pc = "decode"
  /\ results' = RunLibradtranBody(pros, parser_conf)
  /\ console' = console \o RowCountWarning(pros, parser_conf)
  /\ pc' = AfterCall(results')
  /\ UNCHANGED <<caller, conf_file_list, idx, parser_conf, main_input_str,
                 tmpdir, fs, written, pros, conf_results, log>>

\* As Cleanup, with the directory left behind.
CleanupKeepsFiles(files, d) == files

\* TemporaryDirectory.__exit__: what is left on disk under d.
Cleanup(files, d) == {}

\* The with block is left, by the return of run_libradtran or by its
\* exception: the directory and all in it are removed.
ExitWith ==
  /\ pc = "exit_with"
  /\ fs' = Cleanup(fs, tmpdir)
  /\ tmpdir' = NoDir
  /\ pc' = IF results.kind = "raise" THEN "raised" ELSE "append"
  /\ UNCHANGED <<caller, conf_file_list, idx, parser_conf, main_input_str,
                 written, pros, results, console, conf_results, log>>

\* conf_results.append(results)
AppendResults ==
  /\ pc = "append"
  /\ conf_results' = Append(conf_results, results)
  /\ pc' = "for"
  /\ UNCHANGED <<caller, conf_file_list, idx, parser_conf, main_input_str,
                 tmpdir, fs, written, pros, results, console, log>>

\* return conf_results
ReturnConfResults ==
  /\ pc = "for"
  /\ idx = Len(conf_file_list)
  /\ pc' = "done"
  /\ UNCHANGED <<caller, conf_file_list, idx, parser_conf, main_input_str,
                 tmpdir, fs, written, pros, results, console, conf_results, log>>

Next ==
  \/ ForConf
  \/ EnterWith
  \/ WriteTemp
  \/ Communicate
  \/ Decode
  \/ ExitWith
  \/ AppendResults
  \/ ReturnConfResults

\* A direct call runs run_libradtran alone.
NextDirect ==
  \/ Communicate
  \/ Decode

Spec == Init /\ [][Next]_vars
SpecSingle == InitSingle /\ [][Next]_vars
SpecDirect == InitDirect /\ [][NextDirect]_vars

\* ------------------------------------------------ vocabulary of the claims

\* run_libradtran has ended, by return or by exception.
CallEnded ==
  pc \in {"returned", "raised", "exit_with", "append"}
    \/ (pc = "for" /\ idx > 0) \/ pc = "done"

\* A line of exactly n numeric columns.
NumericLine(line, n) ==
  Len(line) = n /\ \A t \in 1..Len(line) : line[t] \notin {"x", " "}

\* Block k (0-based) of an output cut into blocks of len lines.
Block(out, len, k) == SubSeq(out, k * len + 1, (k + 1) * len)

\* out is well-formed for format 0: every line is a 7-column case.
WellFormed0(out) == \A i \in 1..Len(out) : NumericLine(out[i], 7)

\* out is well-formed for format 1 and n viewing angles: whole blocks of a
\* 7-column line and n lines of at least two columns.
WellFormed1(out, n) ==
  /\ Len(out) % (1 + n) = 0
  /\ \A k \in 0..(Len(out) \div (1 + n)) - 1 :
       LET b == Block(out, 1 + n, k)
       IN  /\ NumericLine(b[1], 7)
           /\ \A j \in 1..n :
                Len(b[1 + j]) >= 2 /\ NumericLine(b[1 + j], Len(b[1 + j]))

\* out is well-formed for format 2 and n viewing angles: whole blocks of a
\* 7-column line, a line of A >= 1 azimuth angles and n lines of 2+A columns.
WellFormed2(out, n) ==
  /\ Len(out) % (2 + n) = 0
  /\ \A k \in 0..(Len(out) \div (2 + n)) - 1 :
       LET b == Block(out, 2 + n, k)
       IN  /\ NumericLine(b[1], 7)
           /\ Len(b[2]) >= 1
           /\ NumericLine(b[2], Len(b[2]))
           /\ \A j \in 1..n : NumericLine(b[2 + j], 2 + Len(b[2]))

\* ----------------------------------------------------------------- claims

\* C1: when the solver exits 0 and the number of output lines minus the
\* trailing blank is no multiple of the lines per case, the call ends in a
\* failure (read in the claim's favour: any exception counts) and never
\* returns a list of records built from the floored case count.
C1_MalformedCountFails ==
  (/\ CallEnded
   /\ pros.returncode = 0
   /\ ~IsInteger(Split(pros.stdout), parser_conf))
    => results.kind = "raise"

\* C2: for format 2 with V >= 1 viewing angles and A >= 1 azimuth angles,
\* uu(umu,phi) of each record has V rows and A columns, and its entry
\* [v][a] is column 2+a of the v-th viewing-angle line of the case's block.
C2_RadianceTableByViewingAngle ==
  (/\ CallEnded
   /\ pros.returncode = 0
   /\ parser_conf.output_format = 2
   /\ parser_conf.umu_length >= 1
   /\ WellFormed2(pros.stdout, parser_conf.umu_length))
    => /\ results.kind = "list"
       /\ Len(results.recs) = Len(pros.stdout) \div LinesPerCase(parser_conf)
       /\ \A k \in 1..Len(results.recs) :
            LET b == Block(pros.stdout, LinesPerCase(parser_conf), k - 1)
                V == parser_conf.umu_length
                A == Len(b[2])
                uu == results.recs[k].uu
            IN  /\ uu.k = "matrix"
                /\ uu.shape = <<V, A>>
                /\ \A v \in 1..V : \A a \in 1..A : uu.v[v][a] = b[2 + v][2 + a]

\* C3: for format 0, N well-formed one-line cases and the trailing blank
\* give exactly N records, in order, each with umu, phi, u0u(umu) and
\* uu(umu,phi) None; an empty output gives the empty list.
C3_FormatZeroOneRecordPerLine ==
  (/\ CallEnded
   /\ pros.returncode = 0
   /\ parser_conf.output_format = 0
   /\ WellFormed0(pros.stdout))
    => /\ results.kind = "list"
       /\ Len(results.recs) = Len(pros.stdout)
       /\ \A k \in 1..Len(results.recs) :
            LET r == results.recs[k]
            IN  /\ r.umu = None /\ r.phi = None /\ r.u0u = None /\ r.uu = None
                /\ <<r.lambda, r.edir, r.edn, r.eup, r.uavgdir, r.uavgdn,
                     r.uavup>> = pros.stdout[k]

\* Two well-formed cases of format 0 were decoded into two records.
C3_Witness ==
  /\ pc = "returned"
  /\ pros.returncode = 0
  /\ parser_conf.output_format = 0
  /\ Len(pros.stdout) = 2
  /\ WellFormed0(pros.stdout)
  /\ results.kind = "list"
  /\ Len(results.recs) = 2

\* C4: for format 1 with n >= 1 viewing angles, a well-formed block of 1+n
\* lines gives one record whose umu and u0u are sequences of length n,
\* element j being column 0 resp. 1 of the j-th viewing-angle line; phi and
\* the radiance table stay None.
C4_ZenithSequencesOfLengthN ==
  (/\ CallEnded
   /\ pros.returncode = 0
   /\ parser_conf.output_format = 1
   /\ parser_conf.umu_length >= 1
   /\ WellFormed1(pros.stdout, parser_conf.umu_length))
    => /\ results.kind = "list"
       /\ Len(results.recs) = Len(pros.stdout) \div LinesPerCase(parser_conf)
       /\ \A k \in 1..Len(results.recs) :
            LET b == Block(pros.stdout, LinesPerCase(parser_conf), k - 1)
                n == parser_conf.umu_length
                r == results.recs[k]
            IN  /\ r.umu.k = "array" /\ r.u0u.k = "array"
                /\ Len(r.umu.v) = n /\ Len(r.u0u.v) = n
                /\ \A j \in 1..n :
                     r.umu.v[j] = b[1 + j][1] /\ r.u0u.v[j] = b[1 + j][2]
                /\ r.phi = None /\ r.uu = None

\* C9: a non-zero exit makes run_libradtran return the solver's stderr
\* text unchanged, with no record decoded and nothing printed; an exit of 0
\* never gives the bare text, and a return then is a list of records.
C9_ExitStatusDecidesResult ==
  CallEnded =>
    /\ pros.returncode # 0 =>
         /\ results = ReturnStr(pros.stderr)
         /\ console = <<>>
    /\ pros.returncode = 0 =>
         /\ results.kind # "str"
         /\ pc = "returned" => results.kind = "list"

\* The solver printed a case and then failed: the error text came back.
C9_Witness ==
  /\ pc = "returned"
  /\ pros.returncode # 0
  /\ pros.stdout # <<>>
  /\ results.kind = "str"
  /\ results.text = ErrorText

\* The solver has been run for the configuration the loop is at.
SolverRan == idx >= 1 /\ Len(log) = idx

\* Processing of the configuration the loop took last has ended.
ConfEnded == pc \in {"append", "raised", "done"} \/ (pc = "for" /\ idx > 0)

\* C5: a batch of K configurations returns K entries in configuration
\* order, entry i being the record list of configuration i when its solver
\* run exited 0 and the solver's error text when it exited non-zero; a
\* non-zero exit never ends the batch: only a run that exited 0 can.
C5_NonZeroExitKeepsBatchGoing ==
  /\ Len(conf_results) <= Len(log)
  /\ \A i \in 1..Len(conf_results) :
       LET pr == log[i].pros
           conf == conf_file_list[i].parser_options
       IN  /\ pr.returncode # 0 => conf_results[i] = ReturnStr(pr.stderr)
           /\ pr.returncode = 0 =>
                /\ conf_results[i].kind = "list"
                /\ conf_results[i] =
                     CaseLoop(Split(pr.stdout), conf, pr.stderr, 0, <<>>)
  /\ \A i \in 1..Len(log) :
       log[i].pros.returncode # 0 =>
         \/ i = idx /\ pc \in {"decode", "exit_with", "append"}
         \/ i <= Len(conf_results)
  /\ pc = "done" => Len(conf_results) = Len(conf_file_list)
  /\ pc = "raised" => log[Len(log)].pros.returncode = 0

\* A batch of two returned: the first run exited non-zero, the second
\* exited 0 and gave a record.
C5_Witness ==
  /\ pc = "done"
  /\ Len(conf_file_list) = 2
  /\ log[1].pros.returncode # 0
  /\ log[2].pros.returncode = 0
  /\ conf_results[1] = ReturnStr(ErrorText)
  /\ conf_results[2].kind = "list"
  /\ Len(conf_results[2].recs) = 1

\* C6: a configuration whose output fails to decode does not end the
\* batch: the batch always ends by returning an entry for each of the K
\* configurations.
C6_DecodeFailureKeepsBatchGoing ==
  pc \in {"done", "raised"} =>
    /\ pc = "done"
    /\ Len(conf_results) = Len(conf_file_list)

\* The directive line of a written file, with the newline before it.
Directive(w) == <<"\n">> \o w.key \o <<" ">> \o w.path

\* The directives of ws[1..n], the last written first.
RECURSIVE DirectivesReversed(_, _)
DirectivesReversed(ws, n) ==
  IF n = 0 THEN <<>> ELSE Directive(ws[n]) \o DirectivesReversed(ws, n - 1)

\* The offsets at which the anchor occurs in text.
AnchorOffsets(text) == {i \in 0..Len(text) : OccursAt(text, word, i)}

\* C7: with the anchor "disort" once in the input text, the text given to
\* the solver is the original up to and including the anchor, then the
\* lines "<name> <path>" in reverse mapping order, then the unchanged rest;
\* each directive names the file that holds exactly that block's content.
C7_DirectivesAfterAnchorReversed ==
  (/\ SolverRan
   /\ conf_file_list[idx].has_temp_strs
   /\ Cardinality(AnchorOffsets(conf_file_list[idx].input_str)) = 1)
    => LET orig == conf_file_list[idx].input_str
           temps == conf_file_list[idx].temp_strs
           e == (CHOOSE i \in AnchorOffsets(orig) : TRUE) + Len(word)
           run == log[idx]
       IN  /\ Len(run.written) = Len(temps)
           /\ run.params = SubSeq(orig, 1, e)
                             \o DirectivesReversed(run.written, Len(temps))
                             \o SubSeq(orig, e + 1, Len(orig))
           /\ \A j \in 1..Len(temps) :
                /\ run.written[j].key = temps[j].key
                /\ {f \in run.files : f.path = run.written[j].path}
                     = {[path |-> run.written[j].path,
                         content |-> temps[j].content]}

\* Two blocks were injected into a text with one anchor and text after it.
C7_Witness ==
  /\ SolverRan
  /\ conf_file_list[idx].input_str = TextVerbose
  /\ Len(conf_file_list[idx].temp_strs) = 2
  /\ Len(log[idx].written) = 2
  /\ log[idx].params # TextVerbose

\* C8: the temp files of a configuration with temp_strs all exist with
\* their full content when the solver is invoked, and once processing of
\* the configuration has ended (return, non-zero exit or exception) no temp
\* file and no temp directory is left.
C8_TempFilesScopedToTheRun ==
  /\ \A i \in 1..Len(log) :
       conf_file_list[i].has_temp_strs =>
         LET temps == conf_file_list[i].temp_strs
         IN  /\ Len(log[i].written) = Len(temps)
             /\ Cardinality(log[i].files) = Len(temps)
             /\ \A j \in 1..Len(temps) :
                  [path |-> log[i].written[j].path,
                   content |-> temps[j].content] \in log[i].files
  /\ ConfEnded => fs = {} /\ tmpdir = NoDir

\* A run with two temp files on disk ended in an exception, and nothing
\* is left.
C8_Witness ==
  /\ pc = "raised"
  /\ Cardinality(log[Len(log)].files) = 2
  /\ results.kind = "raise"
  /\ fs = {}
  /\ tmpdir = NoDir

\* The lines of a text: text.split("\n").
RECURSIVE SplitLines(_)
SplitLines(text) ==
  LET nl == {i \in 1..Len(text) : text[i] = "\n"}
  IN  IF nl = {} THEN <<text>>
      ELSE LET i == CHOOSE j \in nl : \A m \in nl : j <= m
           IN  <<SubSeq(text, 1, i - 1)>>
                 \o SplitLines(SubSeq(text, i + 1, Len(text)))

SolverLine == <<"r","t","e","_","s","o","l","v","e","r"," ","d","i","s","o","r","t">>

\* The numbers of the lines of ls that equal line.
LineNumbers(ls, line) == {i \in 1..Len(ls) : ls[i] = line}

\* C10: for every input text with a line "rte_solver disort", the inserted
\* directives are lines of their own directly under that line (in either
\* order), and the other lines are those of the input text.
C10_DirectivesUnderSolverLine ==
  (/\ SolverRan
   /\ conf_file_list[idx].has_temp_strs
   /\ LineNumbers(SplitLines(conf_file_list[idx].input_str), SolverLine) # {})
    => LET orig == SplitLines(conf_file_list[idx].input_str)
           got == SplitLines(log[idx].params)
           ws == log[idx].written
           n == Len(ws)
           at == CHOOSE i \in LineNumbers(orig, SolverLine) :
                   \A j \in LineNumbers(orig, SolverLine) : i <= j
       IN  /\ Len(got) = Len(orig) + n
           /\ SubSeq(got, 1, at) = SubSeq(orig, 1, at)
           /\ {got[at + j] : j \in 1..n}
                = {ws[j].key \o <<" ">> \o ws[j].path : j \in 1..n}
           /\ SubSeq(got, at + n + 1, Len(got)) = SubSeq(orig, at + 1, Len(orig))

\* The decoding of one block taken alone, as the output of a run of its own.
DecodedAlone(block, conf, error) ==
  CaseLoop(Split(block), conf, error, 0, <<>>)

\* C11: with the line count (minus the trailing blank) an exact multiple of
\* the lines per case L, the result has one record per block, in the order
\* of the blocks, and record k is decoded from the lines k*L .. (k+1)*L-1
\* and from no other line: it is the record that block gives when decoded
\* alone.  (When a block cannot be decoded, the call raises what the first
\* such block raises.)
C11_OneRecordPerBlockInOrder ==
  (/\ CallEnded
   /\ pros.returncode = 0
   /\ IsInteger(Split(pros.stdout), parser_conf))
    => LET L == LinesPerCase(parser_conf)
           n == Len(pros.stdout) \div L
           alone(k) == DecodedAlone(Block(pros.stdout, L, k - 1), parser_conf,
                                    pros.stderr)
           bad == {k \in 1..n : alone(k).kind = "raise"}
       IN  IF bad = {}
             THEN /\ results.kind = "list"
                  /\ Len(results.recs) = n
                  /\ \A k \in 1..n : <<results.recs[k]>> = alone(k).recs
             ELSE results = alone(CHOOSE k \in bad : \A j \in bad : k <= j)

\* Two different blocks of two lines gave two different records, in order.
C11_Witness ==
  /\ pc = "returned"
  /\ pros.returncode = 0
  /\ parser_conf = ParserOptions(1, 1)
  /\ pros.stdout = <<BasicLine, PhiLine, BasicLine, ViewLineA>>
  /\ results.kind = "list"
  /\ Len(results.recs) = 2
  /\ results.recs[1].umu.v = <<"20">>
  /\ results.recs[2].umu.v = <<"8">>

\* An empty or whitespace-only line.
IsBlank(line) == \A t \in 1..Len(line) : line[t] = " "

\* out is whole blocks for format fmt in {1, 2} and n viewing angles, each
\* well-formed but for viewing-angle lines that are blank.
WellFormedButBlanks(out, fmt, n) ==
  LET L == fmt + n
  IN  /\ Len(out) % L = 0
      /\ \A k \in 0..(Len(out) \div L) - 1 :
           LET b == Block(out, L, k)
           IN  /\ NumericLine(b[1], 7)
               /\ fmt = 2 => Len(b[2]) >= 1 /\ NumericLine(b[2], Len(b[2]))
               /\ \A j \in 1..n :
                    \/ IsBlank(b[fmt + j])
                    \/ /\ Len(b[fmt + j]) >= 2
                       /\ NumericLine(b[fmt + j], Len(b[fmt + j]))
                       /\ fmt = 2 => Len(b[fmt + j]) = 2 + Len(b[2])

\* Column c of the lines of ls that are not blank, in line order.
RECURSIVE ColumnOfNonBlank(_, _)
ColumnOfNonBlank(ls, c) ==
  IF ls = <<>> THEN <<>>
  ELSE IF IsBlank(Head(ls)) THEN ColumnOfNonBlank(Tail(ls), c)
  ELSE <<Head(ls)[c]>> \o ColumnOfNonBlank(Tail(ls), c)

\* C12: in formats 1 and 2 an empty or whitespace-only line at any position
\* among the viewing-angle lines of a block, the first included, is
\* skipped: decoding succeeds and umu and u0u hold columns 0 and 1 of the
\* remaining lines in line order, the blank line adding no element.
C12_BlankViewingLinesSkipped ==
  (/\ CallEnded
   /\ pros.returncode = 0
   /\ parser_conf.output_format \in {1, 2}
   /\ parser_conf.umu_length >= 1
   /\ WellFormedButBlanks(pros.stdout, parser_conf.output_format,
                          parser_conf.umu_length))
    => LET fmt == parser_conf.output_format
           L == LinesPerCase(parser_conf)
       IN  /\ results.kind = "list"
           /\ Len(results.recs) = Len(pros.stdout) \div L
           /\ \A k \in 1..Len(results.recs) :
                LET view == SubSeq(Block(pros.stdout, L, k - 1), fmt + 1, L)
                IN  /\ results.recs[k].umu.v = ColumnOfNonBlank(view, 1)
                    /\ results.recs[k].u0u.v = ColumnOfNonBlank(view, 2)

\* C13: for every shape, umu_length = 0 with format 1 or 2 included,
\* well-formed output of a run that exited 0 gives one record per case
\* instead of a failure, with no viewing-angle entry when umu_length = 0.
C13_EveryShapeDecodes ==
  (/\ CallEnded
   /\ pros.returncode = 0
   /\ CASE parser_conf.output_format = 0 -> WellFormed0(pros.stdout)
        [] parser_conf.output_format = 1 ->
             WellFormed1(pros.stdout, parser_conf.umu_length)
        [] parser_conf.output_format = 2 ->
             WellFormed2(pros.stdout, parser_conf.umu_length))
    => /\ results.kind = "list"
       /\ Len(results.recs) = Len(pros.stdout) \div LinesPerCase(parser_conf)
       /\ parser_conf.umu_length = 0 =>
            \A k \in 1..Len(results.recs) :
              results.recs[k].umu.v = <<>> /\ results.recs[k].u0u.v = <<>>

====
